---- MODULE Spec2Model ----
(***************************************************************************)
(* A model of the gin Prometheus middleware (package ginprometheus,        *)
(* middleware.go): construction and metric registration, the per-request   *)
(* instrumentation handler with its request-size computation, the          *)
(* push-gateway relay, and the routers the exposition route is put on.     *)
(* Strings are TLA+ strings, byte slices are sequences of integers, Go     *)
(* maps are functions.                                                     *)
(***************************************************************************)
EXTENDS Integers, Sequences, FiniteSets, TLC

VARIABLES
    p,          \* the *Prometheus value built by NewWithConfig
    registry,   \* the registry p was built against: the fully-qualified names registered
    log,        \* the messages written to the logrus logger so far
    inputs,     \* the requests the HTTP server may deliver in this run
    inflight,   \* per goroutine slot: the gin.Context of the request in HandlerFunc
    entered,    \* how many requests have entered HandlerFunc, by kind
    relays,     \* the goroutines started by startPushTicker, with their tickers
    gateway,    \* the POSTs the push gateway has received
    ticks,      \* how many times a ticker has fired
    others,     \* the *Prometheus values built after p, each with its registry
    engines     \* the gin engines: the application's, and the routers made for p

vars == <<p, registry, log, inputs, inflight, entered, relays, gateway, ticks,
          others, engines>>

-----------------------------------------------------------------------------
(* Bounds of the model *)

MaxRequests == 3
MaxInFlight == 2

-----------------------------------------------------------------------------
(* Helpers for Go values *)

Range(s) == {s[i] : i \in 1..Len(s)}

RECURSIVE SumLen(_)
\* sum of len(value) over a []string
SumLen(values) ==
    IF Len(values) = 0 THEN 0 ELSE Len(Head(values)) + SumLen(Tail(values))

Digit == <<"0", "1", "2", "3", "4", "5", "6", "7", "8", "9">>

RECURSIVE Itoa(_)
\* strconv.Itoa on a non-negative int
Itoa(n) == IF n < 10 THEN Digit[n + 1] ELSE Itoa(n \div 10) \o Digit[(n % 10) + 1]

\* the orders in which a range over a Go map may visit a set of keys
Orders(S) == {q \in [1..Cardinality(S) -> S] : Range(q) = S}

NoLabels == [k \in {} |-> ""]

-----------------------------------------------------------------------------
(* Metric definitions: the package-level standard metrics (Description is    *)
(* help text only and is left out)                                           *)

defaultMetricPath == "/metrics"

reqCnt ==
    [ID |-> "reqCnt", Name |-> "requests_total", Type |-> "counter_vec",
     Args |-> <<"code", "method", "handler", "host", "url">>]

reqDur ==
    [ID |-> "reqDur", Name |-> "request_duration_seconds", Type |-> "histogram_vec",
     Args |-> <<"code", "method", "url">>]

resSz ==
    [ID |-> "resSz", Name |-> "response_size_bytes", Type |-> "summary",
     Args |-> <<>>]

reqSz ==
    [ID |-> "reqSz", Name |-> "request_size_bytes", Type |-> "summary",
     Args |-> <<>>]

standardMetrics == <<reqCnt, reqDur, resSz, reqSz>>

VecTypes == {"counter_vec", "gauge_vec", "histogram_vec", "summary_vec"}

\* NewMetric: the collector built from a definition.  A vector collector has
\* the definition's Args as its variable labels and one child per label set
\* (series); a plain collector has a count and a sum of observations.
NewMetric(m, subsystem) ==
    [Type |-> m.Type,
     fqName |-> subsystem \o "_" \o m.Name,
     labelNames |-> IF m.Type \in VecTypes THEN m.Args ELSE <<>>,
     series |-> [l \in {} |-> 0],
     count |-> 0,
     sum |-> 0]

\* prometheus.Register fails for a name already registered and for a
\* descriptor with duplicate label names
RegisterFails(reg, metric) ==
    \/ metric.fqName \in reg
    \/ Cardinality(Range(metric.labelNames)) # Len(metric.labelNames)

CouldNotRegister(name) == name \o " could not be registered in Prometheus"

\* a gin engine as gin.New and gin.Default make it: mw is whether the
\* instrumentation middleware of p has been added to it, routes the paths it
\* has a GET route for, run the addresses Run was called with
NewEngine == [mw |-> FALSE, routes |-> {}, run |-> {}]

\* the application's engine and an engine the caller made for the metrics
Engines == <<NewEngine, NewEngine>>

RECURSIVE registerMetricsOrReturn(_, _, _, _, _)
\* registerMetrics returning at the first definition that cannot be registered
registerMetricsOrReturn(st, list, i, subsystem, n) ==
    IF i > n THEN st
    ELSE
        LET metricDef == list[i]
            metric == NewMetric(metricDef, subsystem)
            failed == RegisterFails(st.registry, metric)
            p1 == CASE metricDef.ID = "reqCnt" -> [st.p EXCEPT !.reqCnt = metric]
                    [] metricDef.ID = "reqDur" -> [st.p EXCEPT !.reqDur = metric]
                    [] metricDef.ID = "resSz" -> [st.p EXCEPT !.resSz = metric]
                    [] metricDef.ID = "reqSz" -> [st.p EXCEPT !.reqSz = metric]
                    [] OTHER -> st.p
        IN  IF failed
            THEN [st EXCEPT !.log = st.log \cup {CouldNotRegister(metricDef.Name)}]
            ELSE registerMetricsOrReturn(
                    [p |-> p1, registry |-> st.registry \cup {metric.fqName},
                     log |-> st.log],
                    list, i + 1, subsystem, n)

RECURSIVE registerMetrics(_, _, _, _, _)
\* registerMetrics over MetricsList[i..]: st is [p, registry, log]
registerMetrics(st, list, i, subsystem, n) ==
    IF i > n THEN st
    ELSE
        LET metricDef == list[i]
            metric == NewMetric(metricDef, subsystem)
            failed == RegisterFails(st.registry, metric)
            p1 == CASE metricDef.ID = "reqCnt" -> [st.p EXCEPT !.reqCnt = metric]
                    [] metricDef.ID = "reqDur" -> [st.p EXCEPT !.reqDur = metric]
                    [] metricDef.ID = "resSz" -> [st.p EXCEPT !.resSz = metric]
                    [] metricDef.ID = "reqSz" -> [st.p EXCEPT !.reqSz = metric]
                    [] OTHER -> st.p
        IN  registerMetrics(
                [p |-> p1,
                 registry |-> IF failed THEN st.registry
                              ELSE st.registry \cup {metric.fqName},
                 log |-> IF failed THEN st.log \cup {CouldNotRegister(metricDef.Name)}
                         ELSE st.log],
                list, i + 1, subsystem, n)

\* the custom label keys appended to the Args of reqCnt alone
WithCustomKeysCounterOnly(metric, customLabelKeys) ==
    IF metric.ID = "reqCnt"
    THEN [metric EXCEPT !.Args = metric.Args \o customLabelKeys]
    ELSE metric

\* the custom label keys are appended to the Args of reqCnt and reqDur only
WithCustomKeys(metric, customLabelKeys) ==
    IF metric.ID = "reqCnt" \/ metric.ID = "reqDur"
    THEN [metric EXCEPT !.Args = metric.Args \o customLabelKeys]
    ELSE metric

NoCollector == NewMetric([Name |-> "", Type |-> "", Args |-> <<>>], "")

NoPpg == [PushIntervalSeconds |-> <<0, 0, 0, 0, 0, 0, 0, 0>>, PushGatewayURL |-> "", MetricsURL |-> "", Job |-> ""]

\* NewWithConfig: customLabelKeys is the order in which the range over
\* cfg.CustomLabels visited the keys; reg and lg are the registry and the log
\* before the call.  The result is [p, registry, log].
NewWithConfig(cfg, customLabelKeys, reg, lg) ==
    LET subsystem == IF cfg.Subsystem = "" THEN "gin" ELSE cfg.Subsystem
        copiedStandardMetrics ==
            [i \in 1..Len(standardMetrics) |->
                IF Cardinality(DOMAIN cfg.CustomLabels) > 0
                THEN WithCustomKeys(standardMetrics[i], customLabelKeys)
                ELSE standardMetrics[i]]
        metricsList == cfg.MetricsList \o copiedStandardMetrics
        p0 == [reqCnt |-> NoCollector, reqDur |-> NoCollector,
               reqSz |-> NoCollector, resSz |-> NoCollector,
               listenAddress |-> "",
               router |-> 0,
               Ppg |-> NoPpg,
               MetricsList |-> metricsList,
               MetricsPath |-> defaultMetricPath,
               URLLabelFromContext |-> "",
               CustomLabels |-> cfg.CustomLabels,
               DisableBodyReading |-> cfg.DisableBodyReading]
    IN  registerMetrics([p |-> p0, registry |-> reg, log |-> lg],
                        metricsList, 1, subsystem, Len(metricsList))

-----------------------------------------------------------------------------
(* Requests and request bodies *)

\* An io.ReadCloser over data: pos bytes have been consumed; a read fails
\* once failAt bytes have been delivered (failAt = -1: no failure, the reads
\* end with EOF); closeErr is what Close returns.  isNil is a nil r.Body.
NilBody ==
    [isNil |-> TRUE, kind |-> "nil", data |-> <<>>, pos |-> 0, failAt |-> -1,
     closed |-> FALSE, closeErr |-> FALSE]

ConnBody(data, failAt, closeErr) ==
    [isNil |-> FALSE, kind |-> "conn", data |-> data, pos |-> 0, failAt |-> failAt,
     closed |-> FALSE, closeErr |-> closeErr]

\* io.NopCloser(bytes.NewBuffer(bodyBytes))
NopCloserBuffer(bodyBytes) ==
    [isNil |-> FALSE, kind |-> "NopCloser", data |-> bodyBytes, pos |-> 0,
     failAt |-> -1, closed |-> FALSE, closeErr |-> FALSE]

\* io.ReadAll(b): the bytes delivered, whether it ended in an error, and the
\* reader afterwards.  A closed body delivers nothing and fails.
ReadAll(b) ==
    IF b.closed THEN [bytes |-> <<>>, err |-> TRUE, body |-> b]
    ELSE IF b.failAt >= b.pos
    THEN [bytes |-> SubSeq(b.data, b.pos + 1, b.failAt), err |-> TRUE,
          body |-> [b EXCEPT !.pos = b.failAt]]
    ELSE [bytes |-> SubSeq(b.data, b.pos + 1, Len(b.data)), err |-> FALSE,
          body |-> [b EXCEPT !.pos = Len(b.data)]]

\* url.URL.String() for a URL of a path and an optional query
URLString(u) == IF u.RawQuery = "" THEN u.Path ELSE u.Path \o "?" \o u.RawQuery

RECURSIVE HeaderSize(_, _)
\* the loop over r.Header: len(name) plus len of every value
HeaderSize(h, names) ==
    IF names = {} THEN 0
    ELSE LET name == CHOOSE n \in names : TRUE
         IN  Len(name) + SumLen(h[name]) + HeaderSize(h, names \ {name})

CannotRead == "cannot read request body for size calculation"
CannotCloseAfterError == "cannot close request body after read error"
CannotCloseAfterRead == "cannot close request body after reading for size calculation"

\* what the function adds for the declared length
DeclaredLength(r) == IF r.ContentLength # -1 THEN r.ContentLength ELSE 0

\* the part of the size that does not depend on the body.  r.URL is never nil
\* here: HandlerFunc has dereferenced it before the call.
OverheadSize(r) ==
    Len(r.URL.Path) + Len(r.Method) + Len(r.Proto)
        + HeaderSize(r.Header, DOMAIN r.Header) + Len(r.Host)

\* the function without its DisableBodyReading branch
computeApproximateRequestSizeAlwaysRead(pp, r) ==
    LET s == OverheadSize(r)
    IN  IF r.Body.isNil
        THEN [s |-> s + DeclaredLength(r), Body |-> r.Body, log |-> {}]
        ELSE LET rd == ReadAll(r.Body)
                 closed == [rd.body EXCEPT !.closed = TRUE]
             IN  IF rd.err
                 THEN [s |-> s + DeclaredLength(r),
                       Body |-> closed,
                       log |-> {CannotRead} \cup
                               (IF closed.closeErr THEN {CannotCloseAfterError} ELSE {})]
                 ELSE [s |-> s + Len(rd.bytes),
                       Body |-> NopCloserBuffer(rd.bytes),
                       log |-> IF closed.closeErr THEN {CannotCloseAfterRead} ELSE {}]

\* computeApproximateRequestSize: the size, r.Body afterwards, and what is logged
computeApproximateRequestSize(pp, r) ==
    LET s == OverheadSize(r)
    IN  IF r.Body.isNil
        THEN [s |-> s + DeclaredLength(r), Body |-> r.Body, log |-> {}]
        ELSE IF pp.DisableBodyReading
        THEN [s |-> s + DeclaredLength(r), Body |-> r.Body, log |-> {}]
        ELSE LET rd == ReadAll(r.Body)
                 closed == [rd.body EXCEPT !.closed = TRUE]
             IN  IF rd.err
                 THEN [s |-> s + DeclaredLength(r),
                       Body |-> closed,
                       log |-> {CannotRead} \cup
                               (IF closed.closeErr THEN {CannotCloseAfterError} ELSE {})]
                 ELSE [s |-> s + Len(rd.bytes),
                       Body |-> NopCloserBuffer(rd.bytes),
                       log |-> IF closed.closeErr THEN {CannotCloseAfterRead} ELSE {}]

-----------------------------------------------------------------------------
(* Collectors *)

\* GetMetricWith rejects a label map whose size or names differ from the
\* variable labels of the vector; With panics on that error
WithFails(vec, labels) ==
    \/ Cardinality(DOMAIN labels) # Len(vec.labelNames)
    \/ \E i \in 1..Len(vec.labelNames) : vec.labelNames[i] \notin DOMAIN labels

\* vec.With(labels).Inc() and vec.With(labels).Observe(v): one more in the child
AddToSeries(vec, labels) ==
    [vec EXCEPT !.series =
        [l \in DOMAIN vec.series \cup {labels} |->
            (IF l \in DOMAIN vec.series THEN vec.series[l] ELSE 0)
                + (IF l = labels THEN 1 ELSE 0)]]

\* summary.Observe(v)
Observe(summary, v) ==
    [summary EXCEPT !.count = summary.count + 1, !.sum = summary.sum + v]

RECURSIVE SeriesTotal(_, _)
\* the sum of a vector's children over the label sets ls
SeriesTotal(vec, ls) ==
    IF ls = {} THEN 0
    ELSE LET l == CHOOSE x \in ls : TRUE
         IN  vec.series[l] + SeriesTotal(vec, ls \ {l})

Total(vec) == SeriesTotal(vec, DOMAIN vec.series)

\* the loop with "labels[k] = k"
MergeLabelsKeyForValue(labels, custom) ==
    [k \in DOMAIN labels \cup DOMAIN custom |->
        IF k \in DOMAIN custom THEN k ELSE labels[k]]

\* the loop "for k, v := range p.CustomLabels { labels[k] = v }"
MergeLabels(labels, custom) ==
    [k \in DOMAIN labels \cup DOMAIN custom |->
        IF k \in DOMAIN custom THEN custom[k] ELSE labels[k]]

-----------------------------------------------------------------------------
(* The instrumentation handler (HandlerFunc), one goroutine per request *)

Slots == 1..MaxInFlight

NoURL == [Path |-> "", RawQuery |-> ""]

NoHeader == [n \in {} |-> <<>>]

NoRequest ==
    [Method |-> "", URL |-> NoURL, Proto |-> "", Header |-> NoHeader, Host |-> "",
     ContentLength |-> 0, Body |-> NilBody]

\* a slot that holds no request.  origBody remembers r.Body as it was when the
\* request entered the handler; start/reqSz/status/resSz/url are the handler's
\* local variables.
FreeSlot ==
    [pc |-> "free", Request |-> NoRequest, origBody |-> NilBody, reqSz |-> 0,
     status |-> "", resSz |-> 0, url |-> ""]

HandlerName == "main.handler"

\* the key/value pairs the downstream handlers may leave in c.Keys
NoKeys == [k \in {} |-> [isString |-> TRUE, s |-> ""]]

\* what the downstream chain (c.Next()) may do: return after writing a
\* response (c.Writer.Size() is -1 when no body was written), possibly having
\* set a context key, or panic
DownstreamOutcomes ==
    { [kind |-> "return", Status |-> 200, Size |-> 2, Keys |-> NoKeys],
      [kind |-> "return", Status |-> 204, Size |-> -1,
       Keys |-> [k \in {"route"} |-> [isString |-> TRUE, s |-> "/tmpl"]]],
      [kind |-> "return", Status |-> 200, Size |-> 2,
       Keys |-> [k \in {"route"} |-> [isString |-> FALSE, s |-> ""]]],
      [kind |-> "panic", Status |-> 500, Size |-> -1, Keys |-> NoKeys] }

\* the comparison of the whole URL with the exposition path
IsMetricsPathByURLString(pp, r) == URLString(r.URL) = pp.MetricsPath

\* the test of line 460: is this the exposition path?
IsMetricsPath(pp, r) == r.URL.Path = pp.MetricsPath

\* Enter with the request size observed as soon as it is computed
EnterObservingSize(s, r) ==
    /\ inflight[s].pc = "free"
    /\ entered.instr + entered.scrape < MaxRequests
    /\ IF IsMetricsPath(p, r)
       THEN /\ inflight' = [inflight EXCEPT ![s] =
                    [FreeSlot EXCEPT !.pc = "passthrough", !.Request = r,
                                     !.origBody = r.Body]]
            /\ entered' = [entered EXCEPT !.scrape = @ + 1]
            /\ log' = log
            /\ p' = p
       ELSE LET sz == computeApproximateRequestSize(p, r)
            IN  /\ inflight' = [inflight EXCEPT ![s] =
                        [FreeSlot EXCEPT !.pc = "next",
                                         !.Request = [r EXCEPT !.Body = sz.Body],
                                         !.origBody = r.Body,
                                         !.reqSz = sz.s]]
                /\ entered' = [entered EXCEPT !.instr = @ + 1]
                /\ log' = log \cup sz.log
                /\ p' = [p EXCEPT !.reqSz = Observe(p.reqSz, sz.s)]
    /\ UNCHANGED <<others, engines, registry, inputs, relays, gateway, ticks>>

\* A request enters the handler.  On the exposition path the handler only
\* calls c.Next(); otherwise it takes the start time and computes the request
\* size (which may replace r.Body) before calling c.Next().
Enter(s, r) ==
    /\ inflight[s].pc = "free"
    /\ entered.instr + entered.scrape < MaxRequests
    /\ IF IsMetricsPath(p, r)
       THEN /\ inflight' = [inflight EXCEPT ![s] =
                    [FreeSlot EXCEPT !.pc = "passthrough", !.Request = r,
                                     !.origBody = r.Body]]
            /\ entered' = [entered EXCEPT !.scrape = @ + 1]
            /\ log' = log
       ELSE LET sz == computeApproximateRequestSize(p, r)
            IN  /\ inflight' = [inflight EXCEPT ![s] =
                        [FreeSlot EXCEPT !.pc = "next",
                                         !.Request = [r EXCEPT !.Body = sz.Body],
                                         !.origBody = r.Body,
                                         !.reqSz = sz.s]]
                /\ entered' = [entered EXCEPT !.instr = @ + 1]
                /\ log' = log \cup sz.log
    /\ UNCHANGED <<others, engines, p, registry, inputs, relays, gateway, ticks>>

\* c.Next() of a request to the exposition path returns and the handler returns
PassThrough(s) ==
    /\ inflight[s].pc = "passthrough"
    /\ inflight' = [inflight EXCEPT ![s] = FreeSlot]
    /\ UNCHANGED <<others, engines, p, registry, log, inputs, entered, relays, gateway, ticks>>

\* lines 474-482: the url label.  ok is FALSE when u.(string) panics.
URLLabel(pp, r, keys) ==
    LET url == r.URL.Path     \* the default ReqCntURLLabelMappingFn
    IN  IF Len(pp.URLLabelFromContext) > 0
        THEN IF pp.URLLabelFromContext \in DOMAIN keys
             THEN [ok |-> keys[pp.URLLabelFromContext].isString,
                   url |-> keys[pp.URLLabelFromContext].s]
             ELSE [ok |-> TRUE, url |-> "unknown"]
        ELSE [ok |-> TRUE, url |-> url]

\* c.Next() of an instrumented request: the downstream chain runs.  A panic
\* unwinds the handler (it has no deferred call), and so does the type
\* assertion on a context value that is not a string; otherwise the handler
\* reads the status and the size of the response and resolves the url label.
Downstream(s, o) ==
    /\ inflight[s].pc = "next"
    /\ LET u == URLLabel(p, inflight[s].Request, o.Keys)
       IN  IF o.kind = "panic" \/ ~u.ok
           THEN /\ inflight' = [inflight EXCEPT ![s] = FreeSlot]
                /\ entered' = [entered EXCEPT !.panicked = @ + 1]
           ELSE /\ inflight' = [inflight EXCEPT ![s] =
                        [@ EXCEPT !.pc = "reqDur", !.status = Itoa(o.Status),
                                  !.resSz = o.Size, !.url = u.url]]
                /\ entered' = entered
    /\ UNCHANGED <<others, engines, p, registry, log, inputs, relays, gateway, ticks>>

reqDurLabels(pp, c) ==
    MergeLabels([code |-> c.status, method |-> c.Request.Method, url |-> c.url],
                pp.CustomLabels)

reqCntLabels(pp, c) ==
    MergeLabels([code |-> c.status, method |-> c.Request.Method,
                 handler |-> HandlerName, host |-> c.Request.Host, url |-> c.url],
                pp.CustomLabels)

\* p.reqDur.With(reqDurLabels).Observe(elapsed); With panics on a label mismatch
ObserveDuration(s) ==
    /\ inflight[s].pc = "reqDur"
    /\ LET labels == reqDurLabels(p, inflight[s])
       IN  IF WithFails(p.reqDur, labels)
           THEN /\ inflight' = [inflight EXCEPT ![s] = FreeSlot]
                /\ entered' = [entered EXCEPT !.panicked = @ + 1]
                /\ p' = p
           ELSE /\ inflight' = [inflight EXCEPT ![s].pc = "reqCnt"]
                /\ entered' = entered
                /\ p' = [p EXCEPT !.reqDur = AddToSeries(p.reqDur, labels)]
    /\ UNCHANGED <<others, engines, registry, log, inputs, relays, gateway, ticks>>

\* p.reqCnt.With(reqCntLabels).Inc()
IncRequests(s) ==
    /\ inflight[s].pc = "reqCnt"
    /\ LET labels == reqCntLabels(p, inflight[s])
       IN  IF WithFails(p.reqCnt, labels)
           THEN /\ inflight' = [inflight EXCEPT ![s] = FreeSlot]
                /\ entered' = [entered EXCEPT !.panicked = @ + 1]
                /\ p' = p
           ELSE /\ inflight' = [inflight EXCEPT ![s].pc = "reqSz"]
                /\ entered' = entered
                /\ p' = [p EXCEPT !.reqCnt = AddToSeries(p.reqCnt, labels)]
    /\ UNCHANGED <<others, engines, registry, log, inputs, relays, gateway, ticks>>

\* p.reqSz.Observe(float64(reqSz))
ObserveRequestSize(s) ==
    /\ inflight[s].pc = "reqSz"
    /\ p' = [p EXCEPT !.reqSz = Observe(p.reqSz, inflight[s].reqSz)]
    /\ inflight' = [inflight EXCEPT ![s].pc = "resSz"]
    /\ UNCHANGED <<others, engines, registry, log, inputs, entered, relays, gateway, ticks>>

\* p.resSz.Observe(resSz), and the handler returns
ObserveResponseSize(s) ==
    /\ inflight[s].pc = "resSz"
    /\ p' = [p EXCEPT !.resSz = Observe(p.resSz, inflight[s].resSz)]
    /\ inflight' = [inflight EXCEPT ![s] = FreeSlot]
    /\ UNCHANGED <<others, engines, registry, log, inputs, entered, relays, gateway, ticks>>

-----------------------------------------------------------------------------
(* Configurations and requests of the runs *)

Test == <<116, 101, 115, 116>>     \* "test"

BaseConfig ==
    [Subsystem |-> "", MetricsList |-> <<>>, CustomLabels |-> NoLabels,
     DisableBodyReading |-> FALSE]

CustomMetric ==
    [ID |-> "1234", Name |-> "test_metric", Type |-> "counter_vec",
     Args |-> <<"kind">>]

\* the configurations of the tests and of the example, one whose custom label
\* has the name of a standard label of both labelled collectors, one whose
\* custom label has the name of a standard label of the request counter
\* alone, and one with a metric of the caller
Configs ==
    { BaseConfig,
      [BaseConfig EXCEPT !.CustomLabels = [k \in {"custom_label"} |-> "test_value"]],
      [BaseConfig EXCEPT !.CustomLabels = [k \in {"code"} |-> "teapot"]],
      [BaseConfig EXCEPT !.CustomLabels = [k \in {"host"} |-> "edge"]],
      [BaseConfig EXCEPT !.Subsystem = "gin", !.MetricsList = <<CustomMetric>>,
                         !.CustomLabels = [k \in {"custom_label"} |-> "custom_value"]] }

GetRequest(path, query) ==
    [Method |-> "GET", URL |-> [Path |-> path, RawQuery |-> query],
     Proto |-> "HTTP/1.1", Header |-> NoHeader, Host |-> "example.com",
     ContentLength |-> 0, Body |-> NilBody]

PostRequest(path, query, header, length, reqBody) ==
    [Method |-> "POST", URL |-> [Path |-> path, RawQuery |-> query],
     Proto |-> "HTTP/1.1", Header |-> header, Host |-> "example.com",
     ContentLength |-> length, Body |-> reqBody]

TextHeader == [n \in {"Content-Type"} |-> <<"text/plain">>]

Requests ==
    { GetRequest("/metrics", ""),
      PostRequest("/metrics", "x=1", NoHeader, 0, NilBody),
      GetRequest("/api/v1/test", ""),
      PostRequest("/api/v1/test", "x=1", TextHeader, 4, ConnBody(Test, -1, FALSE)) }

Init ==
    /\ \E cfg \in Configs, u \in {"", "route"} :
        \E keys \in Orders(DOMAIN cfg.CustomLabels) :
            LET st == NewWithConfig(cfg, keys, {}, {})
            IN  /\ (cfg.MetricsList # <<>>) => (u = "")
                /\ p = [st.p EXCEPT !.URLLabelFromContext = u]
                /\ registry = st.registry
                /\ log = st.log
    /\ inputs = Requests
    /\ inflight = [s \in Slots |-> FreeSlot]
    /\ entered = [instr |-> 0, scrape |-> 0, panicked |-> 0]
    /\ relays = <<>>
    /\ gateway = <<>>
    /\ ticks = 0
    /\ others = <<>>
    /\ engines = Engines

Next ==
    \/ \E s \in Slots, r \in inputs : Enter(s, r)
    \/ \E s \in Slots : PassThrough(s)
    \/ \E s \in Slots, o \in DownstreamOutcomes : Downstream(s, o)
    \/ \E s \in Slots : ObserveDuration(s)
    \/ \E s \in Slots : IncRequests(s)
    \/ \E s \in Slots : ObserveRequestSize(s)
    \/ \E s \in Slots : ObserveResponseSize(s)

Spec == Init /\ [][Next]_vars

-----------------------------------------------------------------------------
(* Runs that measure one request: the size computation on every kind of body *)

TwoHeaders ==
    [n \in {"Accept", "X-Id"} |->
        IF n = "Accept" THEN <<"text/html", "*/*">> ELSE <<"7">>]

\* [ContentLength, Body]: no body; an empty body; "test" with its length
\* declared or not (chunked); reads that fail after 0 or 2 bytes; Close failing
SizeBodies ==
    { [length |-> 0, reqBody |-> NilBody],
      [length |-> -1, reqBody |-> NilBody],
      [length |-> 0, reqBody |-> ConnBody(<<>>, -1, FALSE)],
      [length |-> 4, reqBody |-> ConnBody(Test, -1, FALSE)],
      [length |-> -1, reqBody |-> ConnBody(Test, -1, FALSE)],
      [length |-> 4, reqBody |-> ConnBody(Test, -1, TRUE)],
      [length |-> 4, reqBody |-> ConnBody(Test, 2, FALSE)],
      [length |-> 4, reqBody |-> ConnBody(Test, 0, TRUE)] }

SizeRequests ==
    { PostRequest("/api/v1/test", q, h, b.length, b.reqBody) :
        q \in {"", "x=1"}, h \in {NoHeader, TwoHeaders}, b \in SizeBodies }

SizeConfigs == {BaseConfig, [BaseConfig EXCEPT !.DisableBodyReading = TRUE]}

SizeInit ==
    /\ \E cfg \in SizeConfigs :
        \E keys \in Orders(DOMAIN cfg.CustomLabels) :
            LET st == NewWithConfig(cfg, keys, {}, {})
            IN  /\ p = st.p
                /\ registry = st.registry
                /\ log = st.log
    /\ \E r \in SizeRequests : inputs = {r, GetRequest("/metrics", "")}
    /\ inflight = [s \in Slots |-> FreeSlot]
    /\ entered = [instr |-> 0, scrape |-> 0, panicked |-> 0]
    /\ relays = <<>>
    /\ gateway = <<>>
    /\ ticks = 0
    /\ others = <<>>
    /\ engines = Engines

SizeSpec == SizeInit /\ [][Next]_vars

-----------------------------------------------------------------------------
(* The push-gateway relay: SetPushGateway, startPushTicker and its goroutine *)

MaxRelays == 2
MaxTicks == 2

\* time.Duration is an int64: eight limbs of eight bits, least significant
\* first
Limbs == 8
Base == 256

RECURSIVE ToLimbs(_, _)
ToLimbs(n, k) == IF k = 0 THEN <<>> ELSE <<n % Base>> \o ToLimbs(n \div Base, k - 1)

Duration(n) == ToLimbs(n, Limbs)

RECURSIVE ColumnSum(_, _, _, _)
ColumnSum(a, b, k, i) ==
    IF i > Limbs THEN 0
    ELSE (IF k + 1 - i \in 1..Limbs THEN a[i] * b[k + 1 - i] ELSE 0)
         + ColumnSum(a, b, k, i + 1)

RECURSIVE Product(_, _, _, _)
Product(a, b, k, carry) ==
    IF k > 2 * Limbs THEN <<>>
    ELSE LET t == ColumnSum(a, b, k, 1) + carry
         IN  <<t % Base>> \o Product(a, b, k + 1, t \div Base)

\* the product of two non-negative int64 values as Go computes it: the low
\* 64 bits of the exact product
Mul64(a, b) == SubSeq(Product(a, b, 1, 0), 1, Limbs)

\* whether the exact product of two non-negative int64 values fits an int64
Overflows(a, b) ==
    LET full == Product(a, b, 1, 0)
    IN  \/ \E k \in (Limbs + 1)..(2 * Limbs) : full[k] # 0
        \/ full[Limbs] >= Base \div 2

\* the sign of an int64
Positive(d) == d[Limbs] < Base \div 2 /\ \E k \in 1..Limbs : d[k] # 0

Second == Duration(1000000000)
Minute == Mul64(Duration(60), Second)

\* the values the callers of the tests and of the example configure
PushGatewayURLs == {"http://localhost:9091", "pushGatewayURL.com", "http://bad host"}
MetricsURLs == {"/metrics", "http://localhost:29090/metrics"}
Jobs == {"twobirdsonestone"}
Hostname == "host1"

\* the intervals callers pass to SetPushGateway, each with the interval the
\* caller wants: the test passes 5*time.Minute, the example 5*time.Second,
\* and a caller who reads the parameter's name passes a count of seconds
Intervals ==
    { [arg |-> Mul64(Duration(5), Minute), asked |-> Mul64(Duration(5), Minute)],
      [arg |-> Mul64(Duration(5), Second), asked |-> Mul64(Duration(5), Second)],
      [arg |-> Duration(5), asked |-> Mul64(Duration(5), Second)] }

\* the interval of the example's call
FiveSeconds == Mul64(Duration(5), Second)

\* the URLs of the calls of SetPushGateway: the example's, the test's
\* gateway with a metrics URL that can be fetched, a gateway that answers
\* and one whose URL does not parse
PushCalls ==
    { c \in [pushGatewayURL : PushGatewayURLs, metricsURL : MetricsURLs] :
        \/ c.pushGatewayURL = "http://localhost:9091"
        \/ c.metricsURL = "http://localhost:29090/metrics" }

\* net/url and net/http on those values: a URL with a space in its host does
\* not parse, and a URL without a scheme cannot be fetched or posted to
ParsesAsURL(base) == base # "http://bad host"
HasScheme(base) == base \in {"http://localhost:9091", "http://localhost:29090/metrics"}

\* what promhttp serves at the metrics URL: the state of the collectors
Exposition(pp) ==
    << <<pp.reqCnt.fqName, Total(pp.reqCnt)>>, <<pp.reqDur.fqName, Total(pp.reqDur)>>,
       <<pp.resSz.fqName, pp.resSz.count>>, <<pp.reqSz.fqName, pp.reqSz.count>> >>

\* what one call of getMetrics may meet: http.Get fails or answers, then
\* io.ReadAll fails or not, then Body.Close fails or not
FetchOutcomes(pp) ==
    { o \in [get : {"err", "ok"}, read : {"err", "ok"}, close : {"err", "ok"}] :
        /\ ~HasScheme(pp.Ppg.MetricsURL) => o.get = "err"
        /\ o.get = "err" => (o.read = "ok" /\ o.close = "ok") }

\* getMetrics as it was before the errors were checked: the deferred
\* response.Body.Close() dereferences a nil response when http.Get failed
getMetricsUnchecked(pp, o) ==
    [panics |-> o.get = "err",
     failed |-> o.get = "err" \/ o.read = "err",
     body |-> IF o.get = "err" \/ o.read = "err" THEN <<>> ELSE Exposition(pp),
     log |-> {}]

\* getMetrics: the bytes fetched (empty after an error), whether the fetch
\* failed, what is logged, and whether the call panics
getMetrics(pp, o) ==
    IF o.get = "err"
    THEN [panics |-> FALSE, failed |-> TRUE, body |-> <<>>,
          log |-> {"p.Ppg.MetricsURL failed"}]
    ELSE [panics |-> FALSE,
          failed |-> o.read = "err",
          body |-> IF o.read = "err" THEN <<>> ELSE Exposition(pp),
          log |-> (IF o.read = "err" THEN {"io.ReadAll failed"} ELSE {})
                  \cup (IF o.close = "err" THEN {"response.Body.Close failed"} ELSE {})]

\* the return statement of getPushGatewayURL with the path misspelt
getPushGatewayURLJobs(pp, h) ==
    pp.Ppg.PushGatewayURL \o "/metrics/jobs/" \o pp.Ppg.Job \o "/instance/" \o h

\* the return statement of getPushGatewayURL: h is what os.Hostname
\* returned, and p.Ppg is read as it is at that moment
getPushGatewayURL(pp, h) ==
    pp.Ppg.PushGatewayURL \o "/metrics/job/" \o pp.Ppg.Job \o "/instance/" \o h

\* what the rest of sendMetricsToPushGateway may meet once the URL is built:
\* client.Do fails or not, the response body's Close fails or not, and
\* os.Hostname fails or not in the second getPushGatewayURL, the one of the
\* error message
SendOutcomes(pp) ==
    { o \in [hostErr : BOOLEAN, do : {"err", "ok"}, close : {"err", "ok"}] :
        /\ ~HasScheme(pp.Ppg.PushGatewayURL) => o.do = "err"
        /\ o.do = "err" => o.close = "ok"
        /\ o.hostErr => ~ParsesAsURL(pp.Ppg.PushGatewayURL) }

\* sendMetricsToPushGateway resending after a successful POST
sendMetricsToPushGatewayTwice(pp, metrics, h, o) ==
    LET url == getPushGatewayURL(pp, h)
    IN  IF ~ParsesAsURL(pp.Ppg.PushGatewayURL) \/ o.do = "err"
        THEN [posts |-> <<>>, Job |-> pp.Ppg.Job, log |-> {}]
        ELSE [posts |-> <<[url |-> url, body |-> metrics], [url |-> url, body |-> metrics]>>,
              Job |-> pp.Ppg.Job, log |-> {}]

\* sendMetricsToPushGateway from the return of getPushGatewayURL on: the
\* POST the gateway receives, if any, the job name left in p.Ppg.Job (the
\* second getPushGatewayURL stores the default too), and what is logged
sendMetricsToPushGateway(pp, metrics, h, o) ==
    LET url == getPushGatewayURL(pp, h)
    IN  IF ~ParsesAsURL(pp.Ppg.PushGatewayURL)
        THEN [posts |-> <<>>,
              Job |-> IF pp.Ppg.Job = "" THEN "gin" ELSE pp.Ppg.Job,
              log |-> {"Error creating push gateway request"}
                      \cup (IF o.hostErr THEN {"os.Hostname failed"} ELSE {})]
        ELSE IF o.do = "err"
        THEN [posts |-> <<>>, Job |-> pp.Ppg.Job,
              log |-> {"Error sending to push gateway"}]
        ELSE [posts |-> <<[url |-> url, body |-> metrics]>>, Job |-> pp.Ppg.Job,
              log |-> IF o.close = "err"
                      THEN {"Error closing push gateway response body"} ELSE {}]

\* a relay goroutine with its ticker: period is the ticker's period, C the
\* tick buffered in ticker.C, metrics the bytes of the cycle, fetchFailed
\* whether its fetch failed, h the host name of the cycle's send
NewRelay(d) ==
    [pc |-> "idle", period |-> d, C |-> FALSE, metrics |-> <<>>,
     fetchFailed |-> FALSE, h |-> ""]

\* time.Second * p.Ppg.PushIntervalSeconds, for each interval a caller passes
TickerPeriod == [a \in {d.arg : d \in Intervals} |-> Mul64(Second, a)]

\* startPushTicker: time.NewTicker panics when the period is not positive
startPushTicker(pp) ==
    LET d == TickerPeriod[pp.Ppg.PushIntervalSeconds]
    IN  [panics |-> ~Positive(d), relay |-> NewRelay(d)]

\* SetPushGateway: stores the configuration and starts one more ticker and
\* goroutine.  A ticker may fire at any time (Tick): the model keeps its
\* period and not the time.
SetPushGateway(pushGatewayURL, metricsURL, pushIntervalSeconds) ==
    /\ Len(relays) < MaxRelays
    /\ p' = [p EXCEPT !.Ppg.PushGatewayURL = pushGatewayURL,
                      !.Ppg.MetricsURL = metricsURL,
                      !.Ppg.PushIntervalSeconds = pushIntervalSeconds]
    /\ LET t == startPushTicker(p')
       IN  relays' = IF t.panics THEN relays ELSE Append(relays, t.relay)
    /\ UNCHANGED <<others, engines, registry, log, inputs, inflight, entered, gateway, ticks>>

SetPushGatewayJob(j) ==
    /\ p.Ppg.Job # j
    /\ p' = [p EXCEPT !.Ppg.Job = j]
    /\ UNCHANGED <<others, engines, registry, log, inputs, inflight, entered, relays, gateway, ticks>>

\* the ticker of relay i fires: the tick is buffered, or dropped when one is
\* still waiting in the channel
Tick(i) ==
    /\ ticks < MaxTicks
    /\ ticks' = ticks + 1
    /\ relays' = [relays EXCEPT ![i].C = TRUE]
    /\ UNCHANGED <<others, engines, p, registry, log, inputs, inflight, entered, gateway>>

\* a cycle started for every tick, whether the last one has ended or not
ReceiveInCycle(i) ==
    /\ relays[i].C
    /\ relays' = [relays EXCEPT ![i] = [NewRelay(@.period) EXCEPT !.pc = "fetch"]]
    /\ UNCHANGED <<others, engines, p, registry, log, inputs, inflight, entered, gateway, ticks>>

\* "for range ticker.C": the goroutine receives a tick and starts a cycle
Receive(i) ==
    /\ relays[i].pc = "idle"
    /\ relays[i].C
    /\ relays' = [relays EXCEPT ![i] = [NewRelay(@.period) EXCEPT !.pc = "fetch"]]
    /\ UNCHANGED <<others, engines, p, registry, log, inputs, inflight, entered, gateway, ticks>>

\* p.getMetrics() of the cycle
Fetch(i, o) ==
    /\ relays[i].pc = "fetch"
    /\ LET m == getMetrics(p, o)
       IN  /\ relays' = [relays EXCEPT ![i] =
                   [@ EXCEPT !.pc = IF m.panics THEN "crashed" ELSE "send",
                             !.metrics = m.body, !.fetchFailed = m.failed]]
           /\ log' = log \cup m.log
    /\ UNCHANGED <<others, engines, p, registry, inputs, inflight, entered, gateway, ticks>>

\* the positions of a relay inside sendMetricsToPushGateway
Sending == {"send", "job", "post"}

\* sendMetricsToPushGateway calls getPushGatewayURL: os.Hostname, then the
\* test of p.Ppg.Job
Send(i, hostErr) ==
    /\ relays[i].pc = "send"
    /\ relays' = [relays EXCEPT ![i] =
            [@ EXCEPT !.pc = IF p.Ppg.Job = "" THEN "job" ELSE "post",
                      !.h = IF hostErr THEN "" ELSE Hostname]]
    /\ log' = log \cup (IF hostErr THEN {"os.Hostname failed"} ELSE {})
    /\ UNCHANGED <<others, engines, p, registry, inputs, inflight, entered, gateway, ticks>>

\* the assignment of the default job name, after the test found none
SetDefaultJob(i) ==
    /\ relays[i].pc = "job"
    /\ p' = [p EXCEPT !.Ppg.Job = "gin"]
    /\ relays' = [relays EXCEPT ![i].pc = "post"]
    /\ UNCHANGED <<others, engines, registry, log, inputs, inflight, entered, gateway, ticks>>

\* the URL is built and the rest of sendMetricsToPushGateway runs, back to
\* the range loop
Post(i, o) ==
    /\ relays[i].pc = "post"
    /\ LET r == sendMetricsToPushGateway(p, relays[i].metrics, relays[i].h, o)
       IN  /\ gateway' = gateway \o r.posts
           /\ p' = [p EXCEPT !.Ppg.Job = r.Job]
           /\ log' = log \cup r.log
    /\ relays' = [relays EXCEPT ![i] = [NewRelay(@.period) EXCEPT !.C = relays[i].C]]
    /\ UNCHANGED <<others, engines, registry, inputs, inflight, entered, ticks>>

RelayStep(i) ==
    \/ Receive(i)
    \/ \E o \in FetchOutcomes(p) : Fetch(i, o)
    \/ \E hostErr \in BOOLEAN : Send(i, hostErr)
    \/ SetDefaultJob(i)
    \/ \E o \in SendOutcomes(p) : Post(i, o)

RelayInit ==
    /\ LET st == NewWithConfig(BaseConfig, <<>>, {}, {})
       IN  /\ p = st.p
           /\ registry = st.registry
           /\ log = st.log
    /\ inputs = {}
    /\ inflight = [s \in Slots |-> FreeSlot]
    /\ entered = [instr |-> 0, scrape |-> 0, panicked |-> 0]
    /\ relays = <<>>
    /\ gateway = <<>>
    /\ ticks = 0
    /\ others = <<>>
    /\ engines = Engines

RelayNext ==
    \/ \E c \in PushCalls :
          SetPushGateway(c.pushGatewayURL, c.metricsURL, FiveSeconds)
    \/ \E j \in Jobs : SetPushGatewayJob(j)
    \/ \E i \in 1..Len(relays) : Tick(i)
    \/ \E i \in 1..Len(relays) : RelayStep(i)

RelaySpec == RelayInit /\ [][RelayNext]_vars

\* the relay started with each of the intervals
TickerNext ==
    \/ \E c \in PushCalls, d \in Intervals :
          SetPushGateway(c.pushGatewayURL, c.metricsURL, d.arg)
    \/ \E j \in Jobs : SetPushGatewayJob(j)
    \/ \E i \in 1..Len(relays) : Tick(i)
    \/ \E i \in 1..Len(relays) : RelayStep(i)

TickerSpec == RelayInit /\ [][TickerNext]_vars

-----------------------------------------------------------------------------
(* More than one middleware: NewWithConfig against a registry that is in   *)
(* use or against a new one, and requests through each middleware          *)

MaxOthers == 1

SecondMetric ==
    [ID |-> "1235", Name |-> "test_metric_2", Type |-> "summary", Args |-> <<>>]

\* the configurations of the first middleware, and of those built after it
FirstConfigs ==
    { BaseConfig,
      [BaseConfig EXCEPT !.Subsystem = "gin", !.MetricsList = <<CustomMetric>>] }

OtherConfigs ==
    { BaseConfig,
      [BaseConfig EXCEPT !.Subsystem = "gin",
                         !.MetricsList = <<CustomMetric, SecondMetric>>] }

\* NewWithConfig once more: shared is whether the default registerer is
\* still the registry p was built against, or a new registry as in the tests
\* (prometheus.DefaultRegisterer = prometheus.NewRegistry())
Construct(cfg, shared) ==
    /\ Len(others) < MaxOthers
    /\ LET st == NewWithConfig(cfg, <<>>, IF shared THEN registry ELSE {}, log)
       IN  /\ others' = Append(others,
                   [p |-> st.p, cfg |-> cfg, shared |-> shared,
                    registry |-> IF shared THEN {} ELSE st.registry])
           /\ registry' = IF shared THEN st.registry ELSE registry
           /\ log' = st.log
    /\ UNCHANGED <<p, inputs, inflight, entered, relays, gateway, ticks, engines>>

\* HandlerFunc from entry to return for one request r, o being what the
\* downstream chain does: the middleware afterwards, what is logged, and
\* whether the handler was left by a panic
HandlerFunc(pp, r, o) ==
    IF IsMetricsPath(pp, r)
    THEN [p |-> pp, log |-> {}, panicked |-> o.kind = "panic"]
    ELSE
        LET sz == computeApproximateRequestSize(pp, r)
            req == [r EXCEPT !.Body = sz.Body]
            u == URLLabel(pp, req, o.Keys)
            c == [FreeSlot EXCEPT !.Request = req, !.reqSz = sz.s,
                                  !.status = Itoa(o.Status), !.resSz = o.Size,
                                  !.url = u.url]
            p1 == [pp EXCEPT !.reqDur = AddToSeries(pp.reqDur, reqDurLabels(pp, c))]
            p2 == [p1 EXCEPT !.reqCnt = AddToSeries(p1.reqCnt, reqCntLabels(pp, c))]
            p3 == [p2 EXCEPT !.reqSz = Observe(p2.reqSz, c.reqSz),
                             !.resSz = Observe(p2.resSz, c.resSz)]
        IN  IF o.kind = "panic" \/ ~u.ok
            THEN [p |-> pp, log |-> sz.log, panicked |-> TRUE]
            ELSE IF WithFails(pp.reqDur, reqDurLabels(pp, c))
            THEN [p |-> pp, log |-> sz.log, panicked |-> TRUE]
            ELSE IF WithFails(pp.reqCnt, reqCntLabels(pp, c))
            THEN [p |-> p1, log |-> sz.log, panicked |-> TRUE]
            ELSE [p |-> p3, log |-> sz.log, panicked |-> FALSE]

\* the middlewares of the process: p, then the others
Middlewares == <<p>> \o [j \in 1..Len(others) |-> others[j].p]

\* the collectors kept by name for the whole package: a request through
\* one middleware is recorded by every middleware with collectors of that name
ServedByName(ms, k, r, o) ==
    [j \in 1..Len(ms) |->
        IF ms[j].reqCnt.fqName = ms[k].reqCnt.fqName
        THEN HandlerFunc(ms[j], r, o).p ELSE ms[j]]

\* the middlewares after middleware k has handled request r: the handler
\* is a closure over its own p and records in p's collectors
Served(ms, k, r, o) == [ms EXCEPT ![k] = HandlerFunc(ms[k], r, o).p]

\* one request through the handler of middleware k, from entry to return
Serve(k, r, o) ==
    /\ entered.instr + entered.scrape < MaxRequests
    /\ LET ms == Served(Middlewares, k, r, o)
           h == HandlerFunc(Middlewares[k], r, o)
       IN  /\ p' = ms[1]
           /\ others' = [j \in 1..Len(others) |-> [others[j] EXCEPT !.p = ms[j + 1]]]
           /\ log' = log \cup h.log
           /\ entered' =
                [instr |-> entered.instr + (IF IsMetricsPath(Middlewares[k], r) THEN 0 ELSE 1),
                 scrape |-> entered.scrape + (IF IsMetricsPath(Middlewares[k], r) THEN 1 ELSE 0),
                 panicked |-> entered.panicked + (IF h.panicked THEN 1 ELSE 0)]
    /\ UNCHANGED <<registry, inputs, inflight, relays, gateway, ticks, engines>>

SetupInit ==
    /\ \E cfg \in FirstConfigs :
          LET st == NewWithConfig(cfg, <<>>, {}, {})
          IN  /\ p = st.p
              /\ registry = st.registry
              /\ log = st.log
    /\ inputs = {GetRequest("/api/v1/test", ""), GetRequest("/metrics", "")}
    /\ inflight = [s \in Slots |-> FreeSlot]
    /\ entered = [instr |-> 0, scrape |-> 0, panicked |-> 0]
    /\ relays = <<>>
    /\ gateway = <<>>
    /\ ticks = 0
    /\ others = <<>>
    /\ engines = Engines

SetupNext ==
    \/ \E cfg \in OtherConfigs, shared \in BOOLEAN : Construct(cfg, shared)
    \/ \E k \in 1..(1 + Len(others)), r \in inputs, o \in DownstreamOutcomes :
          Serve(k, r, o)

SetupSpec == SetupInit /\ [][SetupNext]_vars

-----------------------------------------------------------------------------
(* The routers: SetListenAddress, SetListenAddressWithRouter, Use *)

MaxEngines == 3

\* no listen address, and the address of TestSetListenAddress
ListenAddresses == {"", "localhost:4422"}

\* SetListenAddress: a new gin.Default() engine becomes p.router when the
\* address is not empty
SetListenAddress(address) ==
    /\ address # "" => Len(engines) < MaxEngines
    /\ p' = [p EXCEPT !.listenAddress = address,
                      !.router = IF address # "" THEN Len(engines) + 1 ELSE @]
    /\ engines' = IF address # "" THEN Append(engines, NewEngine) ELSE engines
    /\ UNCHANGED <<registry, log, inputs, inflight, entered, relays, gateway,
                   ticks, others>>

\* SetListenAddressWithRouter: r is an engine of the caller
SetListenAddressWithRouter(listenAddress, r) ==
    /\ p' = [p EXCEPT !.listenAddress = listenAddress,
                      !.router = IF Len(listenAddress) > 0 THEN r ELSE @]
    /\ UNCHANGED <<registry, log, inputs, inflight, entered, relays, gateway,
                   ticks, others, engines>>

\* runServer: p.router.Run(p.listenAddress) in a goroutine of its own
runServer(pp, es) ==
    IF pp.listenAddress # ""
    THEN [es EXCEPT ![pp.router].run = @ \cup {pp.listenAddress}]
    ELSE es

\* SetMetricsPath registering the route on the engine it is given
SetMetricsPathOnEngine(pp, e, es) ==
    runServer(pp, [es EXCEPT ![e].routes = @ \cup {pp.MetricsPath}])

\* SetMetricsPath: the engines after the exposition route was registered
SetMetricsPath(pp, e, es) ==
    IF pp.listenAddress # ""
    THEN runServer(pp, [es EXCEPT ![pp.router].routes = @ \cup {pp.MetricsPath}])
    ELSE [es EXCEPT ![e].routes = @ \cup {pp.MetricsPath}]

\* whether p has been put to use on an engine
Used == \E x \in 1..Len(engines) : engines[x].mw

\* Use(e): e.Use(p.HandlerFunc()), then SetMetricsPath(e).  Use is called
\* once, as in the tests and the examples.
Use(e) ==
    /\ ~Used
    /\ engines' = SetMetricsPath(p, e, [engines EXCEPT ![e].mw = TRUE])
    /\ UNCHANGED <<p, registry, log, inputs, inflight, entered, relays, gateway,
                   ticks, others>>

WiringNext ==
    \/ \E address \in ListenAddresses : SetListenAddress(address)
    \/ \E listenAddress \in ListenAddresses, r \in 1..Len(Engines) :
          SetListenAddressWithRouter(listenAddress, r)
    \/ \E e \in 1..Len(Engines) : Use(e)

WiringSpec == SetupInit /\ [][WiringNext]_vars


-----------------------------------------------------------------------------
(* Properties of the handler *)

Idle == \A s \in Slots : inflight[s].pc = "free"

Collectors(pp) == <<pp.reqCnt, pp.reqDur, pp.reqSz, pp.resSz>>

\* the request a slot is working on in a step that changes the slot
Moving(s) == IF inflight[s].pc = "free" THEN inflight'[s].Request ELSE inflight[s].Request

\* slot s holds an instrumented request whose size has been computed and
\* whose downstream chain is about to run
Measured(s) == inflight[s].pc = "next"

\* C1: when no request is in the handler, the request counter summed over all
\* its label combinations equals the number of requests to a path other than
\* the metrics path that have entered the handler.
C1_CounterTotalIsN == Idle => Total(p.reqCnt) = entered.instr

\* C2: a step of a request whose path is the metrics path, whatever its
\* method and query string, only passes the request to the downstream chain
\* and back: it leaves the four standard collectors unchanged.
C2_MetricsPathPassesThrough ==
    [][\A s \in Slots :
        (inflight'[s] # inflight[s] /\ Moving(s).URL.Path = p.MetricsPath) =>
            /\ Collectors(p') = Collectors(p)
            /\ inflight[s].pc = "free" => inflight'[s].pc = "passthrough"
            /\ inflight[s].pc # "free" =>
                  (inflight[s].pc = "passthrough" /\ inflight'[s].pc = "free")]_vars

C2_Witness ==
    /\ Total(p.reqCnt) > 0
    /\ \E s \in Slots :
        /\ inflight[s].pc = "passthrough"
        /\ inflight[s].Request.URL.RawQuery # ""
        /\ inflight[s].Request.Method = "POST"

\* C3: every series of the request counter and of the duration collector
\* carries every configured custom label key with its configured value.
C3_CustomLabelsOnEverySeries ==
    \A l \in DOMAIN p.reqCnt.series \cup DOMAIN p.reqDur.series :
        \A k \in DOMAIN p.CustomLabels :
            k \in DOMAIN l /\ l[k] = p.CustomLabels[k]

C3_Witness ==
    /\ DOMAIN p.CustomLabels # {}
    /\ DOMAIN p.reqCnt.series # {}
    /\ DOMAIN p.reqDur.series # {}

\* C4: every metric the middleware registers (the four standard ones and
\* those of Config.MetricsList) is declared with every custom label.
C4_CustomLabelsOnAllMetrics ==
    \A i \in 1..Len(p.MetricsList) :
        \A k \in DOMAIN p.CustomLabels : k \in Range(p.MetricsList[i].Args)

\* C5: with body reading enabled, once the size has been computed the body of
\* a request that has one yields the bytes the original body would have yielded.
C5_BodyPreserved ==
    \A s \in Slots :
        (Measured(s) /\ ~p.DisableBodyReading /\ ~inflight[s].origBody.isNil) =>
            ReadAll(inflight[s].Request.Body).bytes = ReadAll(inflight[s].origBody).bytes

\* C6: with DisableBodyReading the body is the untouched original (not read,
\* not closed, not replaced), the size is the overhead plus the declared
\* Content-Length (nothing for -1), a request with k > 0 declared body bytes has
\* a size greater than k, and that size is what the request-size summary records.
C6_DisabledLeavesBody ==
    /\ [](\A s \in Slots :
            (p.DisableBodyReading /\ inflight[s].pc \notin {"free", "passthrough"}) =>
                LET r == inflight[s].Request
                IN  /\ r.Body = inflight[s].origBody
                    /\ inflight[s].reqSz =
                          OverheadSize(r) + (IF r.ContentLength = -1 THEN 0
                                             ELSE r.ContentLength)
                    /\ (~r.Body.isNil /\ r.ContentLength > 0) =>
                          inflight[s].reqSz > r.ContentLength)
    /\ [][\A s \in Slots :
            (inflight[s].pc = "reqSz" /\ inflight'[s].pc = "resSz") =>
                /\ p'.reqSz.sum = p.reqSz.sum + inflight[s].reqSz
                /\ p'.reqSz.count = p.reqSz.count + 1]_vars

C6_Witness ==
    /\ p.DisableBodyReading
    /\ p.reqSz.count > 0
    /\ p.reqSz.sum > 4
    /\ \E r \in inputs : r.ContentLength = 4 /\ ~r.Body.isNil

\* C7: the size computed for a request is the length of its URL string, of
\* its method, of its protocol, of every header name and value and of its
\* host, plus the declared Content-Length when body reading is disabled or
\* there is no body, or else plus the number of body bytes consumed.
C7_SizeFormula ==
    \A s \in Slots :
        Measured(s) =>
            LET r == inflight[s].Request
                orig == inflight[s].origBody
            IN  inflight[s].reqSz =
                    Len(URLString(r.URL)) + Len(r.Method) + Len(r.Proto)
                        + HeaderSize(r.Header, DOMAIN r.Header) + Len(r.Host)
                        + (IF p.DisableBodyReading \/ orig.isNil
                           THEN DeclaredLength(r)
                           ELSE Len(ReadAll(orig).bytes))

\* C8: when reading the body fails, the size is the overhead plus the declared
\* Content-Length, the failure is logged, the downstream chain is invoked, and
\* the body yields downstream what it would have yielded without the middleware.
C8_ReadFailureHarmless ==
    \A s \in Slots :
        (Measured(s) /\ ~p.DisableBodyReading /\ ~inflight[s].origBody.isNil
            /\ ReadAll(inflight[s].origBody).err) =>
            /\ inflight[s].reqSz =
                  OverheadSize(inflight[s].Request) + DeclaredLength(inflight[s].Request)
            /\ CannotRead \in log
            /\ ReadAll(inflight[s].Request.Body).bytes = ReadAll(inflight[s].origBody).bytes

-----------------------------------------------------------------------------
(* Properties of the relay *)

\* C9: the send of a cycle whose fetch failed posts nothing to the gateway
C9_NoPostAfterFailedFetch ==
    [][\A i \in 1..Len(relays) :
        (relays[i].pc \in Sending /\ relays[i].fetchFailed /\ relays'[i].pc = "idle") =>
            gateway' = gateway]_vars

\* C10: a relay is only ever idle, fetching or sending; whatever errors a
\* cycle meets, its fetch is followed by its send and its send by the idle
\* state; a cycle starts only from the idle state by taking a tick from the
\* channel; a relay in a cycle can always take its next step, and an idle
\* relay with a tick in its channel can always start the next cycle.
C10_RelaySurvivesErrors ==
    /\ [](\A i \in 1..Len(relays) :
            /\ relays[i].pc \in {"idle", "fetch"} \cup Sending
            /\ relays[i].pc \in {"fetch"} \cup Sending => ENABLED RelayStep(i)
            /\ (relays[i].pc = "idle" /\ relays[i].C) => ENABLED Receive(i))
    /\ [][\A i \in 1..Len(relays) :
            /\ relays[i].pc = "fetch" => relays'[i].pc \in {"fetch", "send"}
            /\ relays[i].pc \in Sending => relays'[i].pc \in Sending \cup {"idle"}
            /\ (relays[i].pc # "fetch" /\ relays'[i].pc = "fetch") =>
                  (relays[i].pc = "idle" /\ relays[i].C /\ ~relays'[i].C)]_vars

C10_Witness ==
    /\ {"p.Ppg.MetricsURL failed", "io.ReadAll failed",
        "Error creating push gateway request", "Error sending to push gateway"}
          \subseteq log
    /\ Len(relays) > 0
    /\ \A i \in 1..Len(relays) : relays[i].pc = "idle"

\* the relays are at rest: no cycle is running and no tick is waiting
Quiescent == \A i \in 1..Len(relays) : relays[i].pc = "idle" /\ ~relays[i].C

\* the URLs a POST may go to under the configuration of the moment
PostURLs(hosts) ==
    { p.Ppg.PushGatewayURL \o "/metrics/job/" \o job \o "/instance/" \o h :
        job \in Jobs \cup {"gin"}, h \in hosts }

C12_URLEndsWithHostname ==
    [][gateway' # gateway =>
         gateway'[Len(gateway')].url \in PostURLs({Hostname})]_vars

\* C12 (amended): getPushGatewayURL returns PushGatewayURL + "/metrics/job/"
\* + job + "/instance/" + hostname, where job is p.Ppg.Job as it is when
\* the URL is built, never empty: a configured name, or "gin", which the
\* call stores after it found no job name set; and hostname is what
\* os.Hostname returned in that call: the host name, or the empty string
\* when os.Hostname failed, which is logged
C12_URLFormat ==
    /\ [](\A i \in 1..Len(relays) :
            /\ relays[i].pc = "post" => p.Ppg.Job \in Jobs \cup {"gin"}
            /\ relays[i].pc \in {"job", "post"} =>
                  \/ relays[i].h = Hostname
                  \/ relays[i].h = "" /\ "os.Hostname failed" \in log)
    /\ [][\A i \in 1..Len(relays) :
            /\ (relays[i].pc = "send" /\ relays'[i].pc # "send") =>
                  /\ relays'[i].pc = IF p.Ppg.Job = "" THEN "job" ELSE "post"
                  /\ p'.Ppg.Job = p.Ppg.Job
            /\ (relays[i].pc = "job" /\ relays'[i].pc # "job") =>
                  (relays'[i].pc = "post" /\ p'.Ppg.Job = "gin")
            /\ (relays[i].pc = "post" /\ relays'[i].pc = "idle"
                  /\ gateway' # gateway) =>
                  gateway'[Len(gateway')].url =
                      p.Ppg.PushGatewayURL \o "/metrics/job/" \o p.Ppg.Job
                          \o "/instance/" \o relays[i].h]_vars

\* the gateway has received a POST for the default job from a call in
\* which os.Hostname failed, and one for a configured job with the host
\* name
C12_Witness ==
    /\ \E k \in 1..Len(gateway) :
          gateway[k].url = "http://localhost:9091/metrics/job/gin/instance/"
    /\ \E k \in 1..Len(gateway) :
          gateway[k].url = "http://localhost:9091/metrics/job/twobirdsonestone/instance/host1"

\* C13: whatever calls of SetPushGateway were made, at most one relay (a
\* ticker and its goroutine) is running
C13_SingleRelay == Len(relays) <= 1

\* C14: a job name set by the caller stays: no step of a relay changes
\* p.Ppg.Job once it holds a name given to SetPushGatewayJob, so every
\* later cycle posts to the URL of that job
C14_JobLastWriterWins ==
    [][p.Ppg.Job \in Jobs => p'.Ppg.Job = p.Ppg.Job]_vars

\* C20: the period of every ticker started is positive, is computed
\* without overflow of an int64, and is the interval the caller asked for
C20_PeriodIsInterval ==
    [][Len(relays') > Len(relays) =>
         \A d \in Intervals :
            d.arg = p'.Ppg.PushIntervalSeconds =>
                /\ ~Overflows(Second, d.arg)
                /\ Positive(relays'[Len(relays')].period)
                /\ relays'[Len(relays')].period = d.asked]_vars

\* the labels passed to With are the labels the collector was created with
SameLabels(vec, labels) ==
    /\ DOMAIN labels = Range(vec.labelNames)
    /\ Cardinality(DOMAIN labels) = Len(vec.labelNames)

\* a key of CustomLabels is one of the standard label names of the metric
Collides(pp, metric) == DOMAIN pp.CustomLabels \cap Range(metric.Args) # {}

\* C17 (as stated): at every observation the labels passed to the duration
\* collector and to the request counter are the labels declared when the
\* collector was created: the same names and the same number
C17_LabelsAsDeclared ==
    \A s \in Slots :
        /\ inflight[s].pc = "reqDur" => SameLabels(p.reqDur, reqDurLabels(p, inflight[s]))
        /\ inflight[s].pc = "reqCnt" => SameLabels(p.reqCnt, reqCntLabels(p, inflight[s]))

\* C17 (amended): the same, for every CustomLabels configuration none of
\* whose keys is a standard label name of the collector
C17_LabelsAsDeclaredWithoutCollision ==
    \A s \in Slots :
        /\ (inflight[s].pc = "reqDur" /\ ~Collides(p, reqDur)) =>
              SameLabels(p.reqDur, reqDurLabels(p, inflight[s]))
        /\ (inflight[s].pc = "reqCnt" /\ ~Collides(p, reqCnt)) =>
              SameLabels(p.reqCnt, reqCntLabels(p, inflight[s]))

\* a request is about to be counted, its duration observed, under a
\* configuration with custom labels
C17_Witness ==
    /\ DOMAIN p.CustomLabels # {}
    /\ ~Collides(p, reqCnt)
    /\ \E s \in Slots : inflight[s].pc = "reqCnt"
    /\ DOMAIN p.reqDur.series # {}

\* the positions of a request after its downstream handler has returned
Recording == {"reqDur", "reqCnt", "reqSz", "resSz"}

\* C18: once the downstream handler has returned, the middleware returns
\* normally: a request leaves the handler only after its last observation,
\* and no panic is raised on the way
C18_RecordFailureHarmless ==
    [][\A s \in Slots :
        (inflight[s].pc \in Recording /\ inflight'[s].pc = "free") =>
            (inflight[s].pc = "resSz" /\ entered'.panicked = entered.panicked)]_vars

\* the registry middleware j of others was built against
RegistryOf(j) == IF others[j].shared THEN registry ELSE others[j].registry

\* the fully-qualified name NewMetric gives a definition under a configuration
FqName(cfg, m) == (IF cfg.Subsystem = "" THEN "gin" ELSE cfg.Subsystem) \o "_" \o m.Name

\* C15: a middleware built against a registry that holds some of its names
\* is complete all the same: its four collector handles are set, every
\* definition of its MetricsList is in the registry afterwards, registered
\* by this construction or by an earlier one, and each failed registration
\* is in the log
C15_RegistrationFailureNotFatal ==
    \A j \in 1..Len(others) :
        LET q == others[j].p
        IN  /\ q.reqCnt.fqName = FqName(others[j].cfg, reqCnt)
            /\ q.reqDur.fqName = FqName(others[j].cfg, reqDur)
            /\ q.resSz.fqName = FqName(others[j].cfg, resSz)
            /\ q.reqSz.fqName = FqName(others[j].cfg, reqSz)
            /\ Len(q.MetricsList) = Len(others[j].cfg.MetricsList) + Len(standardMetrics)
            /\ \A i \in 1..Len(q.MetricsList) :
                  FqName(others[j].cfg, q.MetricsList[i]) \in RegistryOf(j)
            /\ (others[j].shared /\ p.reqCnt.fqName = q.reqCnt.fqName) =>
                  {CouldNotRegister(m.Name) : m \in Range(standardMetrics)} \subseteq log

\* a second middleware of the same subsystem in the same registry: the
\* first definition of its list could not be registered, the next one was,
\* and the four standard ones could not
C15_Witness ==
    \E j \in 1..Len(others) :
        /\ others[j].shared
        /\ others[j].p.reqCnt.fqName = p.reqCnt.fqName
        /\ CouldNotRegister(CustomMetric.Name) \in log
        /\ FqName(others[j].cfg, SecondMetric) \in registry
        /\ CouldNotRegister(reqSz.Name) \in log

\* middleware j of others has a registry of its own
Independent(j) == ~others[j].shared

\* C16: with registries of their own, a request through one middleware
\* leaves the collectors and the exposition of every other one unchanged
C16_MiddlewaresIndependent ==
    [][\A j \in 1..Len(others) :
        (Len(others') = Len(others) /\ Independent(j)) =>
            /\ Collectors(p') # Collectors(p) =>
                  /\ others'[j] = others[j]
                  /\ Exposition(others'[j].p) = Exposition(others[j].p)
            /\ Collectors(others'[j].p) # Collectors(others[j].p) =>
                  /\ p' = p
                  /\ Exposition(p') = Exposition(p)
                  /\ registry' = registry
                  /\ \A i \in 1..Len(others) : i # j => others'[i] = others[i]]_vars

\* two middlewares with collectors of the same names and registries of
\* their own have counted different numbers of requests
C16_Witness ==
    \E j \in 1..Len(others) :
        /\ Independent(j)
        /\ others[j].p.reqCnt.fqName = p.reqCnt.fqName
        /\ Total(p.reqCnt) = 2
        /\ Total(others[j].p.reqCnt) = 1

\* the engines that get the exposition route in a step
GotRoute == {x \in 1..Len(engines) : p.MetricsPath \in engines'[x].routes \ engines[x].routes}

Stepping == {s \in Slots : inflight'[s] # inflight[s]}

Counts(pp) == <<Total(pp.reqDur), Total(pp.reqCnt), pp.reqSz.count, pp.resSz.count>>

\* C22: the duration collector has at least as many observations as the
\* request counter counts, that at least as many as the request-size
\* collector has, and that at least as many as the response-size collector;
\* when no request is between its first and its last observation the four
\* numbers are equal
C22_CountsOrdered ==
    /\ Counts(p)[1] >= Counts(p)[2]
    /\ Counts(p)[2] >= Counts(p)[3]
    /\ Counts(p)[3] >= Counts(p)[4]
    /\ (\A s \in Slots : inflight[s].pc \notin Recording) =>
          /\ Counts(p)[1] = Counts(p)[2]
          /\ Counts(p)[2] = Counts(p)[3]
          /\ Counts(p)[3] = Counts(p)[4]

\* the positions of a relay in a cycle
InCycle == {"fetch"} \cup Sending

\* C23: the cycles of one relay do not overlap.  A cycle starts only from
\* the idle state, which a relay comes back to only from the end of its
\* send; a tick that fires while the relay is in a cycle waits in the
\* channel and changes nothing else of the relay; so the fetch of a
\* cycle never starts before the send of the last one has ended.
C23_CyclesDoNotOverlap ==
    [][\A i \in 1..Len(relays) :
        /\ (relays'[i].pc = "fetch" /\ relays[i].pc # "fetch") =>
              (relays[i].pc = "idle" /\ relays[i].metrics = <<>>)
        /\ (relays'[i].pc = "idle" /\ relays[i].pc # "idle") =>
              relays[i].pc = "post"
        /\ (relays[i].pc \in InCycle /\ ticks' # ticks) =>
              relays'[i] \in {relays[i], [relays[i] EXCEPT !.C = TRUE]}]_vars

\* a tick has fired while the relay was in a cycle: it waits in the
\* channel while the relay, its fetch done, is about to post
C23_Witness ==
    \E i \in 1..Len(relays) :
        /\ relays[i].pc = "post"
        /\ relays[i].C
        /\ relays[i].metrics # <<>>
        /\ ticks = 2

====
